---- MODULE Spec2Model ----
(***************************************************************************)
(* Model of the vectime extension (src/src/lib.rs): the vector clock type, *)
(* increment, max (merge), the merge-join comparison partial_cmp, and the  *)
(* GiST support functions consistent, union and picksplit.                 *)
(*                                                                         *)
(* The functions are pure.  The state is the call being served: the        *)
(* function called, its operands and its result.  Under SpecClock,         *)
(* SpecOrder, SpecGist and SpecIndex every call takes fresh operands, with *)
(* counters well inside the i64 range; under SpecHistory one stored clock  *)
(* is built from the empty clock by a sequence of increment and max calls, *)
(* up to the ends of the i64 range.                                        *)
(***************************************************************************)
EXTENDS Integers, Sequences, FiniteSets, TLC

VARIABLES fn, entries, vts, arg, ret

vars == <<fn, entries, vts, arg, ret>>

(* ------------------------------ bounds --------------------------------- *)

\* Largest counter of an operand clock drawn under Spec.
MaxVal == 2

\* Largest magnitude of a delta passed to increment under Spec.
MaxDelta == 2

(* ---------------------------- the value type ---------------------------- *)

\* The keys used by the tests, in the ascending order a BTreeMap<String, _>
\* iterates them.
KeyOrder == <<"A", "B", "C">>

Ids == {KeyOrder[i] : i \in 1..Len(KeyOrder)}

\* i64::MAX of the counter type, scaled down to a 4-bit signed integer so that
\* the wrap-around of i64 addition is reachable.
I64Max == 7

I64Min == -I64Max - 1

I64 == I64Min..I64Max

\* The value a two's complement addition leaves when the sum is out of range.
Wrap(n) == ((n - I64Min) % (I64Max - I64Min + 1)) + I64Min

\* A vectime(BTreeMap<String, i64>) is a function from its present keys to
\* their counters.  vectime::default() is the empty map.
Default == <<>>

\* BTreeMap::iter(): the (key, value) pairs in ascending key order.
Iter(vt) ==
  LET keys == SelectSeq(KeyOrder, LAMBDA k : k \in DOMAIN vt)
  IN  [i \in 1..Len(keys) |-> <<keys[i], vt[keys[i]]>>]

\* BTreeMap::entry(key).or_default(): the counter at key, inserted as 0 if absent.
OrDefault(vt, key) == IF key \in DOMAIN vt THEN vt[key] ELSE 0

\* The map after *entry(key).or_default() = value.
Insert(vt, key, value) ==
  IF key \in DOMAIN vt THEN [vt EXCEPT ![key] = value] ELSE vt @@ (key :> value)

(* ------------------------------ results --------------------------------- *)

RetClock(v) == [tag |-> "vectime", val |-> v]
RetOrd(o) == [tag |-> "ordering", val |-> o]
RetBool(v) == [tag |-> "bool", val |-> v]
RetPanic == [tag |-> "panic", val |-> "panic"]
NoRet == [tag |-> "none", val |-> "none"]

\* Option<vectime> as vectime::from_datum returns it for a GISTENTRY key.
SomeVt(v) == [some |-> TRUE, val |-> v]
NoneVt == [some |-> FALSE, val |-> Default]

\* Option::unwrap_or_default().
UnwrapOrDefault(e) == IF e.some THEN e.val ELSE Default

(* ------------------------------ increment ------------------------------- *)

\* *e + delta on i64: an overflowing sum panics in a build with overflow
\* checks ("debug") and wraps in one without ("release").
I64Add(x, y, build) ==
  IF x + y \in I64 THEN [ok |-> TRUE, val |-> x + y]
  ELSE IF build = "debug" THEN [ok |-> FALSE, val |-> 0]
  ELSE [ok |-> TRUE, val |-> Wrap(x + y)]

\* increment without its early return on delta <= 0.
incrementUnguarded(vt, id, delta, build) ==
  LET sum == I64Add(OrDefault(vt, id), delta, build)
  IN  IF sum.ok THEN RetClock(Insert(vt, id, sum.val)) ELSE RetPanic

increment(vt, id, delta, build) ==
  IF delta <= 0 THEN RetClock(vt)
  ELSE LET sum == I64Add(OrDefault(vt, id), delta, build)
       IN  IF sum.ok THEN RetClock(Insert(vt, id, sum.val)) ELSE RetPanic

(* --------------------------------- max ---------------------------------- *)

\* i64::max
I64MaxOf(x, y) == IF x >= y THEN x ELSE y

\* The loop body of max storing the right value instead of the larger one.
MaxEntryOverwrite(left, key, value) == Insert(left, key, value)

\* One iteration of the loop of max: *e = (*e).max(value) at entry(key).or_default().
MaxEntry(left, key, value) == Insert(left, key, I64MaxOf(OrDefault(left, key), value))

RECURSIVE MaxLoop(_, _, _)
MaxLoop(left, right, i) ==
  IF i > Len(right) THEN left
  ELSE MaxLoop(MaxEntry(left, right[i][1], right[i][2]), right, i + 1)

max(left, right) == MaxLoop(left, Iter(right), 1)

(* ----------------------------- partial_cmp ------------------------------ *)

\* i64::partial_cmp
I64Cmp(v1, v2) == IF v1 < v2 THEN "Less" ELSE IF v1 > v2 THEN "Greater" ELSE "Equal"

\* The arm of equal keys: the running result after comparing the two values.
CmpValues(result, v1, v2) ==
  LET other == I64Cmp(v1, v2)
  IN  IF other = "Greater" /\ result = "Less" THEN "None"
      ELSE IF other = "Less" /\ result = "Greater" THEN "None"
      ELSE IF result = "Equal" THEN other
      ELSE result

\* The arm (None, Some(_)) without its case for Equal.
CmpLeftExhaustedKeepsEqual(result) ==
  IF result = "Greater" THEN "None" ELSE result

\* The arm (None, Some(_)): self is exhausted, other has entries left.
CmpLeftExhausted(result) ==
  IF result = "Greater" THEN "None"
  ELSE IF result = "Equal" THEN "Less"
  ELSE result

\* The arm (Some(_), None): other is exhausted, self has entries left.
CmpRightExhausted(result) ==
  IF result = "Less" THEN "None"
  ELSE IF result = "Equal" THEN "Greater"
  ELSE result

\* The arm of two different keys.
CmpKeysDiffer(result) == "None"

\* The while loop of partial_cmp over the two iterators a and b, e1 = a[i] and
\* e2 = b[j]; "None" stands for Option::None.
RECURSIVE CmpLoop(_, _, _, _, _)
CmpLoop(a, b, i, j, result) ==
  IF result = "None" THEN result
  ELSE IF i > Len(a) /\ j > Len(b) THEN result
  ELSE IF i > Len(a) THEN CmpLeftExhausted(result)
  ELSE IF j > Len(b) THEN CmpRightExhausted(result)
  ELSE IF a[i][1] = b[j][1]
       THEN CmpLoop(a, b, i + 1, j + 1, CmpValues(result, a[i][2], b[j][2]))
       ELSE CmpLoop(a, b, i, j, CmpKeysDiffer(result))

partial_cmp(self, other) == CmpLoop(Iter(self), Iter(other), 1, 1, "Equal")

\* impl PartialEq: eq
eq(self, other) == partial_cmp(self, other) = "Equal"

\* PartialOrd's provided gt and lt, as value > query and value < query use them.
gt(self, other) == partial_cmp(self, other) = "Greater"
lt(self, other) == partial_cmp(self, other) = "Less"

(* --------------------------- boundary predicates ------------------------ *)

intersects(t1, t2) == partial_cmp(t1, t2) = "None"
same(t1, t2) == partial_cmp(t1, t2) = "Equal"
contains(t1, t2) == partial_cmp(t1, t2) = "Greater"
contained(t1, t2) == partial_cmp(t1, t2) = "Less"

\* create operator class vectime_ops: the predicate registered at a strategy number.
vectime_ops(strategy, t1, t2) ==
  CASE strategy = 8 -> contained(t1, t2)
    [] strategy = 7 -> contains(t1, t2)
    [] strategy = 6 -> same(t1, t2)
    [] strategy = 3 -> intersects(t1, t2)

(* ------------------------------ GiST support ---------------------------- *)

STRATEGY_NUMBER_CONCURRENT == 3
STRATEGY_NUMBER_EQUAL == 6
STRATEGY_NUMBER_GREATER == 7
STRATEGY_NUMBER_LESS == 8

\* strategy as StrategyNumber: the i16 reinterpreted as u16.
AsStrategyNumber(strategy) == strategy % 65536

\* consistent with the arms of GREATER and LESS exchanged.
consistentExchanged(entry, query, strategy) ==
  IF entry.some
  THEN LET value == entry.val
           s == AsStrategyNumber(strategy)
       IN  CASE s = STRATEGY_NUMBER_CONCURRENT -> RetBool(partial_cmp(value, query) = "None")
             [] s = STRATEGY_NUMBER_EQUAL -> RetBool(eq(value, query))
             [] s = STRATEGY_NUMBER_GREATER -> RetBool(lt(value, query))
             [] s = STRATEGY_NUMBER_LESS -> RetBool(gt(value, query))
             [] OTHER -> RetPanic
  ELSE RetBool(FALSE)

consistent(entry, query, strategy) ==
  IF entry.some
  THEN LET value == entry.val
           s == AsStrategyNumber(strategy)
       IN  CASE s = STRATEGY_NUMBER_CONCURRENT -> RetBool(partial_cmp(value, query) = "None")
             [] s = STRATEGY_NUMBER_EQUAL -> RetBool(eq(value, query))
             [] s = STRATEGY_NUMBER_GREATER -> RetBool(gt(value, query))
             [] s = STRATEGY_NUMBER_LESS -> RetBool(lt(value, query))
             [] OTHER -> RetPanic
  ELSE RetBool(FALSE)

\* The loop of union stopping one entry early.
RECURSIVE UnionLoopStopsEarly(_, _, _)
UnionLoopStopsEarly(result, es, i) ==
  IF i >= Len(es) THEN result
  ELSE UnionLoopStopsEarly(max(result, UnwrapOrDefault(es[i])), es, i + 1)

\* The loop of union: result = max(result, value) over the entries in order.
RECURSIVE UnionLoop(_, _, _)
UnionLoop(result, es, i) ==
  IF i > Len(es) THEN result
  ELSE UnionLoop(max(result, UnwrapOrDefault(es[i])), es, i + 1)

union(es) ==
  IF Len(es) = 1 THEN UnwrapOrDefault(es[1])
  ELSE UnionLoop(Default, es, 1)

\* picksplit: unimplemented!() after reading the entry vector.
picksplit(es) == RetPanic

\* create aggregate max: sfunc = max folded over the rows from initcond = '{}'.
RECURSIVE max_aggregate(_)
max_aggregate(rows) ==
  IF rows = <<>> THEN Default
  ELSE max(max_aggregate(SubSeq(rows, 1, Len(rows) - 1)), rows[Len(rows)])

(* ------------------------------- operands ------------------------------- *)

\* The clocks increment and max build from the empty clock while no sum leaves
\* the i64 range: every present counter is at least 1.
Clocks == UNION { [D -> 1..MaxVal] : D \in SUBSET Ids }

\* The keys of GISTENTRYs as from_datum decodes them.
Entries == {SomeVt(v) : v \in Clocks} \cup {NoneVt}

Deltas == -MaxDelta..MaxDelta

\* i16 strategy arguments: the four registered numbers and some others.
StrategyCodes == {-1, 0, 3, 5, 6, 7, 8, 9}

Registered == {STRATEGY_NUMBER_CONCURRENT, STRATEGY_NUMBER_EQUAL,
               STRATEGY_NUMBER_GREATER, STRATEGY_NUMBER_LESS}

Builds == {"debug", "release"}

\* The sequences over S of a length in lens.
SeqsOf(S, lens) == UNION { [1..n -> S] : n \in lens }

NoArg == [id |-> "", delta |-> 0, strategy |-> 0]

(* -------------------------------- calls --------------------------------- *)

Init ==
  /\ fn = "idle"
  /\ entries = <<>>
  /\ vts = <<>>
  /\ arg = NoArg
  /\ ret = NoRet

\* select increment(vt, id, delta)
Increment ==
  /\ fn = "idle"
  /\ \E vt \in Clocks, id \in Ids, delta \in Deltas, build \in Builds :
       /\ fn' = "increment"
       /\ vts' = <<vt>>
       /\ arg' = [NoArg EXCEPT !.id = id, !.delta = delta]
       /\ ret' = increment(vt, id, delta, build)
  /\ UNCHANGED entries

\* select left || right
Max ==
  /\ fn = "idle"
  /\ \E left \in Clocks, right \in Clocks :
       /\ fn' = "max"
       /\ vts' = <<left, right>>
       /\ ret' = RetClock(max(left, right))
  /\ UNCHANGED <<entries, arg>>

\* select max(vt) from a table of up to three rows
MaxAggregate ==
  /\ fn = "idle"
  /\ \E rows \in SeqsOf(Clocks, 0..3) :
       /\ fn' = "max_aggregate"
       /\ vts' = rows
       /\ ret' = RetClock(max_aggregate(rows))
  /\ UNCHANGED <<entries, arg>>

\* self.partial_cmp(other)
PartialCmp ==
  /\ fn = "idle"
  /\ \E self \in Clocks, other \in Clocks :
       /\ fn' = "partial_cmp"
       /\ vts' = <<self, other>>
       /\ ret' = RetOrd(partial_cmp(self, other))
  /\ UNCHANGED <<entries, arg>>

\* select t1 ?# t2, t1 ~= t2, t1 @> t2, t1 <@ t2
BoundaryPredicate ==
  /\ fn = "idle"
  /\ \E strategy \in Registered, t1 \in Clocks, t2 \in Clocks :
       /\ fn' = "vectime_ops"
       /\ vts' = <<t1, t2>>
       /\ arg' = [NoArg EXCEPT !.strategy = strategy]
       /\ ret' = RetBool(vectime_ops(strategy, t1, t2))
  /\ UNCHANGED entries

\* consistent(entry, query, strategy, subtype, recheck)
Consistent ==
  /\ fn = "idle"
  /\ \E entry \in Entries, query \in Clocks, strategy \in StrategyCodes :
       /\ fn' = "consistent"
       /\ entries' = <<entry>>
       /\ vts' = <<query>>
       /\ arg' = [NoArg EXCEPT !.strategy = strategy]
       /\ ret' = consistent(entry, query, strategy)

\* union(args) on an entry vector of one to three entries
Union ==
  /\ fn = "idle"
  /\ \E es \in SeqsOf(Entries, 1..3) :
       /\ fn' = "union"
       /\ entries' = es
       /\ ret' = RetClock(union(es))
  /\ UNCHANGED <<vts, arg>>

\* The call returns and the next statement can run.
Return ==
  /\ fn # "idle"
  /\ fn' = "idle"
  /\ entries' = <<>>
  /\ vts' = <<>>
  /\ arg' = NoArg
  /\ ret' = NoRet

\* The clock functions: increment, max and the max aggregate.
NextClock ==
  \/ Increment
  \/ Max
  \/ MaxAggregate
  \/ Return

SpecClock == Init /\ [][NextClock]_vars

\* The comparison and the four operators derived from it.
NextOrder ==
  \/ PartialCmp
  \/ BoundaryPredicate
  \/ Return

SpecOrder == Init /\ [][NextOrder]_vars

\* The GiST support functions called on entries the host hands over.
NextGist ==
  \/ Consistent
  \/ Union
  \/ Return

SpecGist == Init /\ [][NextGist]_vars

(* --------------------------- index maintenance --------------------------- *)

\* consistent on the entry of an internal page: the host stored union(page) as
\* the key of the entry above a page of two leaves, and a search asks
\* consistent about that key to decide whether to descend into the page.
ConsistentInternal ==
  /\ fn = "idle"
  /\ \E page \in SeqsOf({SomeVt(v) : v \in Clocks}, {2}), query \in Clocks,
        strategy \in Registered :
       /\ fn' = "consistent_internal"
       /\ entries' = page
       /\ vts' = <<query>>
       /\ arg' = [NoArg EXCEPT !.strategy = strategy]
       /\ ret' = consistent(SomeVt(union(page)), query, strategy)

\* picksplit(entry, split) on an overflowing page of two or three entries
Picksplit ==
  /\ fn = "idle"
  /\ \E page \in SeqsOf({SomeVt(v) : v \in Clocks}, 2..3) :
       /\ fn' = "picksplit"
       /\ entries' = page
       /\ ret' = picksplit(page)
  /\ UNCHANGED <<vts, arg>>

\* The GiST support functions as the host uses them on the pages of the tree.
NextIndex ==
  \/ ConsistentInternal
  \/ Picksplit
  \/ Return

SpecIndex == Init /\ [][NextIndex]_vars

\* Every call of the extension.
Next ==
  \/ NextClock
  \/ NextOrder
  \/ NextGist
  \/ NextIndex

Spec == Init /\ [][Next]_vars

(* ------------------------ the history of one clock ----------------------- *)

\* Deltas of the i64 range: a non-positive one, the smallest positive one, the
\* largest one.
HistoryDeltas == {-1, 1, I64Max}

InitHistory ==
  /\ fn = "idle"
  /\ entries = <<>>
  /\ vts = <<Default>>
  /\ arg = NoArg
  /\ ret = NoRet

\* update ... set vt = increment(vt, id, delta): the stored clock is replaced
\* when the call returns, and kept when it panics.
IncrementStep ==
  \E id \in Ids, delta \in HistoryDeltas, build \in Builds :
    LET r == increment(vts[1], id, delta, build)
    IN  /\ fn' = "increment"
        /\ arg' = [NoArg EXCEPT !.id = id, !.delta = delta]
        /\ ret' = r
        /\ vts' = IF r.tag = "vectime" THEN <<r.val>> ELSE vts
        /\ UNCHANGED entries

\* The clocks of the peers: one process each has counted on them.
Peers == {v \in Clocks : Cardinality(DOMAIN v) = 1}

\* update ... set vt = vt || peer, with the clock of a peer.
MaxStep ==
  \E peer \in Peers :
    /\ fn' = "max"
    /\ arg' = NoArg
    /\ ret' = RetClock(max(vts[1], peer))
    /\ vts' = <<max(vts[1], peer)>>
    /\ UNCHANGED entries

NextHistory ==
  \/ IncrementStep
  \/ MaxStep

SpecHistory == InitHistory /\ [][NextHistory]_vars

(* ------------------------------- properties ------------------------------ *)

\* The counter of a clock at a key, an absent key read as 0.
At(vt, k) == IF k \in DOMAIN vt THEN vt[k] ELSE 0

Leq(x, y) == \A k \in Ids : At(x, k) <= At(y, k)

\* The causal order of two clocks by its definition.
CausalOrder(x, y) ==
  IF Leq(x, y) /\ Leq(y, x) THEN "Equal"
  ELSE IF Leq(x, y) THEN "Less"
  ELSE IF Leq(y, x) THEN "Greater"
  ELSE "None"

GreaterOrEqual == {"Greater", "Equal"}

\* seq with the elements at i and i + 1 exchanged.  Every order of a sequence
\* is reached by such exchanges, and the calls take every sequence.
Exchanged(seq, i) ==
  [j \in 1..Len(seq) |-> IF j = i THEN seq[i + 1] ELSE IF j = i + 1 THEN seq[i] ELSE seq[j]]

\* The largest number of a non-empty finite set of integers.
Largest(S) == CHOOSE m \in S : \A n \in S : n <= m

\* C1: partial_cmp returns the causal order of its operands, an absent key
\* read as 0: Equal, Less, Greater by the pointwise comparison of the counters,
\* and None (Unordered) otherwise, also when the key sets differ.
C1_CompareIsCausalOrder ==
  fn = "partial_cmp" => ret.val = CausalOrder(vts[1], vts[2])

\* C2: max is idempotent, commutative and associative up to eq, and the max
\* aggregate gives the same clock for every order and every grouping of its
\* rows.
C2_MergeLaws ==
  /\ fn = "max" =>
       /\ eq(ret.val, max(vts[2], vts[1]))
       /\ vts[1] = vts[2] => eq(ret.val, vts[1])
  /\ fn = "max_aggregate" =>
       /\ Len(vts) = 3 =>
            eq(max(max(vts[1], vts[2]), vts[3]), max(vts[1], max(vts[2], vts[3])))
       /\ \A i \in 1..(Len(vts) - 1) : eq(max_aggregate(Exchanged(vts, i)), ret.val)

\* Three different rows, none of them the result, are merged.
C2_Witness ==
  /\ fn = "max_aggregate"
  /\ Len(vts) = 3
  /\ Cardinality({vts[1], vts[2], vts[3], ret.val}) = 4
  /\ CausalOrder(vts[1], vts[2]) = "None"

\* C3: partial_cmp is reflexive, antisymmetric (Greater one way iff Less the
\* other way, Equal one way iff Equal the other way) and transitive on Less.
C3_PartialOrder ==
  fn = "partial_cmp" =>
    /\ partial_cmp(vts[1], vts[1]) = "Equal"
    /\ vts[1] = vts[2] => ret.val = "Equal"
    /\ ret.val = "Greater" <=> partial_cmp(vts[2], vts[1]) = "Less"
    /\ ret.val = "Equal" <=> partial_cmp(vts[2], vts[1]) = "Equal"
    /\ ret.val = "Less" =>
         \A c \in Clocks :
           partial_cmp(vts[2], c) = "Less" => partial_cmp(vts[1], c) = "Less"

\* The first operand is Less than the second, and the second Less than some
\* clock.
C3_Witness ==
  /\ fn = "partial_cmp"
  /\ ret.val = "Less"
  /\ \E c \in Clocks : partial_cmp(vts[2], c) = "Less"

C5_CountersNonNegative ==
  \A i \in 1..Len(vts) : \A k \in DOMAIN vts[i] : vts[i][k] >= 0

\* C6: the counter of union(entries) at every id is the largest counter any
\* entry has there, the result is the same for every order of the entries, for
\* two entries it is their max, and for one entry it is that entry's clock.
C6_UnionIsPointwiseMax ==
  fn = "union" =>
    /\ \A k \in Ids :
         At(ret.val, k) =
           Largest({At(UnwrapOrDefault(entries[i]), k) : i \in 1..Len(entries)})
    /\ \A i \in 1..(Len(entries) - 1) : union(Exchanged(entries, i)) = ret.val
    /\ Len(entries) = 2 =>
         ret.val = max(UnwrapOrDefault(entries[1]), UnwrapOrDefault(entries[2]))
    /\ Len(entries) = 1 => ret.val = UnwrapOrDefault(entries[1])

\* Three different clocks, none of them the result, are united.
C6_Witness ==
  /\ fn = "union"
  /\ Len(entries) = 3
  /\ \A i \in 1..3 : entries[i].some
  /\ Cardinality({entries[1].val, entries[2].val, entries[3].val, ret.val}) = 4

\* C7: the merge is the least upper bound under partial_cmp: max(a, b) is
\* Greater than or Equal to a and to b, union(entries) is Greater than or
\* Equal to every entry, and a clock Greater than or Equal to a and to b is
\* Greater than or Equal to max(a, b).
C7_MergeIsLeastUpperBound ==
  /\ fn = "max" =>
       /\ partial_cmp(ret.val, vts[1]) \in GreaterOrEqual
       /\ partial_cmp(ret.val, vts[2]) \in GreaterOrEqual
       /\ \A c \in Clocks :
            (/\ partial_cmp(c, vts[1]) \in GreaterOrEqual
             /\ partial_cmp(c, vts[2]) \in GreaterOrEqual)
              => partial_cmp(c, ret.val) \in GreaterOrEqual
  /\ fn = "union" =>
       \A i \in 1..Len(entries) :
         partial_cmp(ret.val, UnwrapOrDefault(entries[i])) \in GreaterOrEqual

\* The relation a registered strategy number names.
Relation(strategy) ==
  CASE strategy = 3 -> "None"
    [] strategy = 6 -> "Equal"
    [] strategy = 7 -> "Greater"
    [] strategy = 8 -> "Less"

\* C8: with a present entry clock and strategy 3, 6, 7 or 8, consistent
\* returns whether partial_cmp(entry clock, query) is the relation the strategy
\* names, as the predicate registered at that number does; with a present
\* entry clock and any other strategy it panics; with an absent entry value it
\* returns false.
C8_ConsistentByStrategy ==
  fn = "consistent" =>
    IF entries[1].some
    THEN IF arg.strategy \in {3, 6, 7, 8}
         THEN /\ ret = RetBool(partial_cmp(entries[1].val, vts[1]) = Relation(arg.strategy))
              /\ ret = RetBool(vectime_ops(arg.strategy, entries[1].val, vts[1]))
         ELSE ret = RetPanic
    ELSE ret = RetBool(FALSE)

\* consistent answers true for strategy 7 on an entry Greater than the query.
C8_Witness ==
  /\ fn = "consistent"
  /\ entries[1].some
  /\ arg.strategy = 7
  /\ ret = RetBool(TRUE)

\* C9: picksplit returns two groups of the entries of the page that are
\* non-empty, disjoint, cover the page and hold at least 30% of it each.
C9_PicksplitPartitions ==
  fn = "picksplit" =>
    /\ ret.tag = "split"
    /\ LET left == ret.val[1]
           right == ret.val[2]
           n == Len(entries)
       IN  /\ left # {} /\ right # {}
           /\ left \cap right = {}
           /\ left \cup right = 1..n
           /\ 10 * Cardinality(left) >= 3 * n
           /\ 10 * Cardinality(right) >= 3 * n

\* C10: when consistent is true of a leaf of a page for a query and a
\* registered strategy, it is true of the internal entry whose key is the
\* union of the page.
C10_PruningKeepsMatches ==
  fn = "consistent_internal" =>
    ((\E i \in 1..Len(entries) :
        consistent(entries[i], vts[1], arg.strategy) = RetBool(TRUE))
      => ret = RetBool(TRUE))

====
